---- MODULE Spec2Model ----
(***************************************************************************)
(* Model of Magnum's Math::BoolVector (src/src/Math/BoolVector.h), of      *)
(* MeshTools::compressIndices (src/src/MeshTools/CompressIndices.cpp) and  *)
(* of Shader (src/unnamed/part_000).                                       *)
(*                                                                         *)
(* A BoolVector<size> is its _data array: a sequence of DataSize(size)     *)
(* UnsignedByte values (0..255); C++ index k is sequence index k+1.        *)
(* A 32-bit index value is its four bytes, least significant first, so     *)
(* that the whole range 0 .. 2^32-1 is representable.                      *)
(***************************************************************************)
EXTENDS Integers, Sequences, FiniteSets

VARIABLES
    size,       \* BoolVector: the template parameter `size` (bit count)
    a,          \* BoolVector: the receiver object's _data
    b,          \* BoolVector: the other operand's _data
    c,          \* BoolVector: a third vector's _data
    pre,        \* BoolVector: the receiver's _data before the last call
    last,       \* the last call made: [op, i, v]
    out,        \* BoolVector: the vector returned by the last call
    ret,        \* the bool returned by the last call
    a2,         \* BoolVector: a second receiver, equal to a on bits 0..size-1
    b2,         \* BoolVector: a second operand, equal to b on bits 0..size-1
    indices,    \* compressIndices: the argument, a sequence of 32-bit values
    result,     \* compressIndices: what the call returned
    mesh,       \* compressIndices(mesh, ...): the Mesh's index state
    gpu,        \* compressIndices(mesh, ...): the Buffer's data store
    heap,       \* compressIndices(mesh, ...): the state of the array `data`
    shaders,    \* Shader: the shaders constructed, each [type, id, sources]
    shaderCall, \* Shader: the last constructor or addSource call made
    list,       \* Shader::compile: the argument, indices into shaders
    gl,         \* Shader: the OpenGL calls issued, in order
    reports,    \* Shader::compile: what was written to Error and Warning
    idx,        \* Shader::compile: position of the running loop in list
    allSuccess, \* Shader::compile: the local allSuccess
    driver,     \* the driver's compile status and info log length per id
    compiled,   \* Shader::compile: how the call ended
    exts,       \* Context: the extensions the context supports
    limits,     \* the driver's value of each implementation limit
    cache,      \* Context::current()->state().shader: the cached limits
    queried,    \* the glGetIntegerv calls issued, in order
    limitCall,  \* the limit queries made, in order: [fn, type, ret, asked]
    pc          \* position of the calling program

vars ==
    <<size, a, b, c, pre, last, out, ret, a2, b2, indices, result,
      mesh, gpu, heap, shaders, shaderCall, list, gl, reports, idx,
      allSuccess, driver, compiled, exts, limits, cache, queried, limitCall,
      pc>>

\* the variables of the compressIndices program
ciVars == <<indices, result>>

\* the variables of the BoolVector programs
bvVars == <<size, a, b, c, pre, last, out, ret, a2, b2>>

\* the variables of the Mesh and Buffer given to compressIndices
meshVars == <<mesh, gpu, heap>>

\* the variables of the Shader programs
shaderVars ==
    <<shaders, shaderCall, list, gl, reports, idx, allSuccess, driver,
      compiled>>

\* the variables of the programs querying the shader limits
limitVars == <<exts, limits, cache, queried, limitCall>>

-----------------------------------------------------------------------------
(* Bounds of the model *)

\* Largest BoolVector size of the single-call specification
MaxSize == 16

\* Largest BoolVector size of the specification of the binary operators
MaxAlgSize == 9

\* Largest BoolVector size of the two-run specification
MaxDCSize == 4

\* Longest argument of compressIndices
MaxLen == 3

\* Sample values of one _data segment: all clear, only the top bit, all but
\* the top bit, all set, and a mixed pattern
SegmentSamples == {0, 128, 127, 255, 5}

-----------------------------------------------------------------------------
(* C++ integer operators on non-negative ints *)

RECURSIVE BitAnd(_, _)
\* x & y
BitAnd(x, y) ==
    IF x = 0 \/ y = 0 THEN 0
    ELSE (x % 2) * (y % 2) + 2 * BitAnd(x \div 2, y \div 2)

RECURSIVE BitOr(_, _)
\* x | y
BitOr(x, y) ==
    IF x = 0 THEN y
    ELSE IF y = 0 THEN x
    ELSE (IF x % 2 = 1 \/ y % 2 = 1 THEN 1 ELSE 0) + 2 * BitOr(x \div 2, y \div 2)

RECURSIVE BitXor(_, _)
\* x ^ y
BitXor(x, y) ==
    IF x = 0 THEN y
    ELSE IF y = 0 THEN x
    ELSE (((x % 2) + (y % 2)) % 2) + 2 * BitXor(x \div 2, y \div 2)

\* x << k
Shl(x, k) == x * (2 ^ k)

\* x >> k
Shr(x, k) == x \div (2 ^ k)

\* ~x on an int: the complement of a two's complement int
BitNot(x) == (-x) - 1

\* conversion of an int to UnsignedByte
ToUnsignedByte(x) == x % 256

\* conversion of a bool to int
BoolToInt(v) == IF v THEN 1 ELSE 0

-----------------------------------------------------------------------------
(* BoolVector<size> *)

\* number of bits in one segment
SegmentBits == 8

FullSegmentMask == 255

DataSize(n) == (n - 1) \div SegmentBits + 1

LastSegmentMask(n) == ToUnsignedByte(Shl(1, n % SegmentBits) - 1)

\* BoolVector(): _data()
BoolVectorDefault(n) == [k \in 1..DataSize(n) |-> 0]

\* BoolVector(Sequence<sequence...>, UnsignedByte value)
BoolVectorRepeat(n, value) == [k \in 1..DataSize(n) |-> value]

\* a faulty filled constructor: true fills each segment with 1
BoolVectorFilledOne(n, value) ==
    BoolVectorRepeat(n, IF value THEN 1 ELSE 0)

\* explicit BoolVector(T value), enabled for size != 1
BoolVectorFilled(n, value) ==
    BoolVectorRepeat(n, IF value THEN FullSegmentMask ELSE 0)

\* operator[](i)
Get(d, i) ==
    BitAnd(Shr(d[i \div SegmentBits + 1], i % SegmentBits), 1) # 0

\* a faulty set: assigns the segment instead of or-ing into it
setAssign(d, i, value) ==
    [d EXCEPT ![i \div SegmentBits + 1] =
        ToUnsignedByte(Shl(BitAnd(BoolToInt(value), 1), i % SegmentBits))]

\* set(i, value)
set(d, i, value) ==
    [d EXCEPT ![i \div SegmentBits + 1] =
        ToUnsignedByte(BitOr(@, Shl(BitAnd(BoolToInt(value), 1), i % SegmentBits)))]


\* a faulty operator==: compares the whole last segment, tail included
operatorEqUnmasked(d, o, n) ==
    \A i \in 0..(DataSize(n) - 1) : d[i + 1] = o[i + 1]

\* operator==(other)
operatorEq(d, o, n) ==
    IF \E i \in 0..(n \div SegmentBits - 1) : d[i + 1] # o[i + 1]
    THEN FALSE
    ELSE IF /\ n % SegmentBits # 0
            /\ BitAnd(d[DataSize(n)], LastSegmentMask(n))
                 # BitAnd(o[DataSize(n)], LastSegmentMask(n))
    THEN FALSE
    ELSE TRUE

\* operator!=(other)
operatorNe(d, o, n) == ~operatorEq(d, o, n)

\* a faulty all(): tests the whole last segment against the full mask
allUnmasked(d, n) ==
    \A i \in 0..(DataSize(n) - 1) : d[i + 1] = FullSegmentMask

\* all()
all(d, n) ==
    IF \E i \in 0..(n \div SegmentBits - 1) : d[i + 1] # FullSegmentMask
    THEN FALSE
    ELSE IF /\ n % SegmentBits # 0
            /\ BitAnd(d[DataSize(n)], LastSegmentMask(n)) # LastSegmentMask(n)
    THEN FALSE
    ELSE TRUE

\* a faulty none(): tests the whole last segment
noneUnmasked(d, n) ==
    \A i \in 0..(DataSize(n) - 1) : d[i + 1] = 0

\* none()
none(d, n) ==
    IF \E i \in 0..(n \div SegmentBits - 1) : d[i + 1] # 0
    THEN FALSE
    ELSE IF /\ n % SegmentBits # 0
            /\ BitAnd(d[DataSize(n)], LastSegmentMask(n)) # 0
    THEN FALSE
    ELSE TRUE

\* any()
any(d, n) == ~none(d, n)

\* a faulty operator~: inverts the full segments only
operatorNotFullSegments(d, n) ==
    [k \in 1..DataSize(n) |->
        IF k - 1 < n \div SegmentBits THEN ToUnsignedByte(BitNot(d[k])) ELSE 0]

\* operator~()
operatorNot(d, n) ==
    [k \in 1..DataSize(n) |-> ToUnsignedByte(BitNot(d[k]))]

\* a faulty operator&=: combines the full segments only
operatorAndAssignFullSegments(d, o, n) ==
    [k \in 1..DataSize(n) |->
        IF k - 1 < n \div SegmentBits THEN BitAnd(d[k], o[k]) ELSE d[k]]

\* operator&=(other)
operatorAndAssign(d, o, n) ==
    [k \in 1..DataSize(n) |-> BitAnd(d[k], o[k])]

\* a faulty operator&: the copy is combined with |=
operatorAndByOr(d, o, n) ==
    [k \in 1..DataSize(n) |-> BitOr(d[k], o[k])]

\* operator&(other): BoolVector<size>(*this) &= other
operatorAnd(d, o, n) == operatorAndAssign(d, o, n)

\* operator|=(other)
operatorOrAssign(d, o, n) ==
    [k \in 1..DataSize(n) |-> BitOr(d[k], o[k])]

\* operator|(other): BoolVector<size>(*this) |= other
operatorOr(d, o, n) == operatorOrAssign(d, o, n)

\* operator^=(other)
operatorXorAssign(d, o, n) ==
    [k \in 1..DataSize(n) |-> BitXor(d[k], o[k])]

\* operator^(other): BoolVector<size>(*this) ^= other
operatorXor(d, o, n) == operatorXorAssign(d, o, n)

-----------------------------------------------------------------------------
(* The single-call specification: a program that holds two vectors a and b *)
(* of one size, built from segment values, and makes one call on them.     *)

\* BoolVector(UnsignedByte first, T... next): DataSize(n) segment values,
\* stored as given
Vectors(n) == [1..DataSize(n) -> SegmentSamples]

\* no call of compressIndices has returned
NoResult == [status |-> "none"]

\* no Mesh, no Buffer and no array `data`
MeshIdle ==
    /\ mesh = [set |-> FALSE]
    /\ gpu = [set |-> FALSE]
    /\ heap = "none"

\* no shader has been constructed and compile has not been called
ShaderIdle ==
    /\ shaders = <<>>
    /\ shaderCall = [op |-> "none"]
    /\ list = <<>>
    /\ gl = <<>>
    /\ reports = <<>>
    /\ idx = 0
    /\ allSuccess = TRUE
    /\ driver = <<>>
    /\ compiled = "no"

\* no limit has been queried
LimitsIdle ==
    /\ exts = {}
    /\ limits = <<>>
    /\ cache = <<>>
    /\ queried = <<>>
    /\ limitCall = <<>>

NoCall == [op |-> "none", i |-> 0, v |-> FALSE]

Call(op, i, v) == [op |-> op, i |-> i, v |-> v]

InitBV ==
    /\ size \in 1..MaxSize
    /\ a \in Vectors(size)
    /\ b \in Vectors(size)
    /\ c = <<>>
    /\ pre = a
    /\ last = NoCall
    /\ out = <<>>
    /\ ret = FALSE
    /\ a2 = <<>>
    /\ b2 = <<>>
    /\ indices = <<>>
    /\ result = NoResult
    /\ MeshIdle
    /\ ShaderIdle
    /\ LimitsIdle
    /\ pc = "start"

\* a call that returns a bool and changes nothing
Observe(op, i, value) ==
    /\ pc = "start"
    /\ ret' = value
    /\ last' = Call(op, i, FALSE)
    /\ pc' = "done"
    /\ UNCHANGED <<size, a, b, c, pre, out, a2, b2, ciVars, meshVars, shaderVars, limitVars>>

\* a call that changes the receiver a
Mutate(op, i, v, value) ==
    /\ pc = "start"
    /\ a' = value
    /\ pre' = a
    /\ last' = Call(op, i, v)
    /\ pc' = "done"
    /\ UNCHANGED <<size, b, c, out, ret, a2, b2, ciVars, meshVars, shaderVars, limitVars>>

\* a call that returns a new vector and changes nothing
Produce(op, value) ==
    /\ pc = "start"
    /\ out' = value
    /\ last' = Call(op, 0, FALSE)
    /\ pc' = "done"
    /\ UNCHANGED <<size, a, b, c, pre, ret, a2, b2, ciVars, meshVars, shaderVars, limitVars>>

\* a = BoolVector<size>()
CallDefault == Mutate("default", 0, FALSE, BoolVectorDefault(size))

\* a = BoolVector<size>(v), which exists for size != 1
CallFilled ==
    /\ size # 1
    /\ \E v \in BOOLEAN : Mutate("filled", 0, v, BoolVectorFilled(size, v))

\* a[i]
CallGet == \E i \in 0..(size - 1) : Observe("get", i, Get(a, i))

\* a.set(i, v)
CallSet ==
    \E i \in 0..(size - 1), v \in BOOLEAN : Mutate("set", i, v, set(a, i, v))

\* a == b
CallEq == Observe("eq", 0, operatorEq(a, b, size))

\* a != b
CallNe == Observe("ne", 0, operatorNe(a, b, size))

\* a.all()
CallAll == Observe("all", 0, all(a, size))

\* a.none()
CallNone == Observe("none", 0, none(a, size))

\* a.any()
CallAny == Observe("any", 0, any(a, size))

\* ~a
CallNot == Produce("not", operatorNot(a, size))

\* a &= b
CallAndAssign == Mutate("and=", 0, FALSE, operatorAndAssign(a, b, size))

\* a |= b
CallOrAssign == Mutate("or=", 0, FALSE, operatorOrAssign(a, b, size))

\* a ^= b
CallXorAssign == Mutate("xor=", 0, FALSE, operatorXorAssign(a, b, size))

\* a & b
CallAnd == Produce("and", operatorAnd(a, b, size))

\* a | b
CallOr == Produce("or", operatorOr(a, b, size))

\* a ^ b
CallXor == Produce("xor", operatorXor(a, b, size))

NextBV ==
    \/ CallDefault
    \/ CallFilled
    \/ CallGet
    \/ CallSet
    \/ CallEq
    \/ CallNe
    \/ CallAll
    \/ CallNone
    \/ CallAny
    \/ CallNot
    \/ CallAndAssign
    \/ CallOrAssign
    \/ CallXorAssign
    \/ CallAnd
    \/ CallOr
    \/ CallXor

SpecBV == InitBV /\ [][NextBV]_vars

\* bits 0..n-1 of d, as the set of the indices whose bit is true
Bits(d, n) == {i \in 0..(n - 1) : Get(d, i)}

\* the last call was op and has returned
Called(op) == pc = "done" /\ last.op = op

-----------------------------------------------------------------------------
(* Claims about single calls *)

\* C1 (as stated): after set(i, v) with 0 <= i < size, operator[](i)
\* returns v, whatever the vector held before; in particular after
\* set(i, false) the bit reads false.
C1_SetThenGet ==
    Called("set") => (Get(a, last.i) = last.v)

\* C2: set(i, v) leaves every other bit j # i, 0 <= j < size, as it was,
\* for v = true and for v = false.
C2_SetFrame ==
    Called("set") =>
        \A j \in (0..(size - 1)) \ {last.i} : Get(a, j) = Get(pre, j)

\* C2 witness: set(i, false) has been called on a vector of two segments
\* in which some other bit is true and some other bit is false.
C2_Witness ==
    /\ Called("set") /\ ~last.v
    /\ size > SegmentBits
    /\ \E j \in (0..(size - 1)) \ {last.i} : Get(pre, j)
    /\ \E j \in (0..(size - 1)) \ {last.i} : ~Get(pre, j)

\* C3: a == b returns true exactly when a[i] = b[i] for every i in
\* 0..size-1, whatever the bits beyond size-1 hold, and a != b returns the
\* negation.
C3_Equality ==
    /\ Called("eq") => (ret <=> \A i \in 0..(size - 1) : Get(a, i) = Get(b, i))
    /\ Called("ne") => (ret <=> \E i \in 0..(size - 1) : Get(a, i) # Get(b, i))

\* C3 witness: a == b has returned true for two vectors whose last segments
\* differ beyond bit size-1.
C3_Witness ==
    /\ Called("eq") /\ ret
    /\ size % SegmentBits # 0
    /\ a[DataSize(size)] # b[DataSize(size)]

\* C4: all() is true exactly when every bit 0..size-1 is true, none() exactly
\* when every bit 0..size-1 is false, and any() is the negation of none(),
\* for sizes that are and that are not multiples of 8 and whatever the bits
\* beyond size-1 hold.
C4_Aggregates ==
    /\ Called("all") => (ret <=> \A i \in 0..(size - 1) : Get(a, i))
    /\ Called("none") => (ret <=> \A i \in 0..(size - 1) : ~Get(a, i))
    /\ Called("any") => (ret <=> \E i \in 0..(size - 1) : Get(a, i))

\* C4 witness: all() has returned true on a vector whose last segment has a
\* clear bit beyond size-1.
C4_Witness ==
    /\ Called("all") /\ ret
    /\ size % SegmentBits # 0
    /\ a[DataSize(size)] # FullSegmentMask

\* C5: a == a, ~~a == a, and (~a)[i] = !a[i] for every i in 0..size-1.
C5_Inversion ==
    Called("not") =>
        /\ operatorEq(a, a, size)
        /\ operatorEq(operatorNot(out, size), a, size)
        /\ \A i \in 0..(size - 1) : Get(out, i) = ~Get(a, i)

\* C5 witness: ~a has been computed for a vector of a size that is not a
\* multiple of 8 and that has both true and false bits.
C5_Witness ==
    /\ Called("not")
    /\ size % SegmentBits # 0
    /\ Bits(a, size) # {} /\ Bits(a, size) # 0..(size - 1)

\* C7: for size != 1 the filled constructor BoolVector(value) makes every
\* bit 0..size-1 equal to value, so all() is true for value = true and
\* none() is true for value = false; the default constructor makes none()
\* true.
C7_Constructors ==
    /\ Called("filled") =>
        /\ \A i \in 0..(size - 1) : Get(a, i) = last.v
        /\ last.v => all(a, size)
        /\ ~last.v => none(a, size)
    /\ Called("default") => none(a, size)

\* C7 witness: BoolVector(true) has been constructed for a size that is not
\* a multiple of 8.
C7_Witness ==
    /\ Called("filled") /\ last.v
    /\ size % SegmentBits # 0

\* C14: a & b, a | b, a ^ b and ~a leave both operands as they were and
\* return a new vector; a &= b, a |= b and a ^= b change a only (b is as it
\* was) and leave in a what the pure form returns for the operands as they
\* were before the call.
C14_PureAndInPlace ==
    [][ /\ last'.op \in {"and", "or", "xor", "not"} => (a' = a /\ b' = b)
        /\ last'.op = "and" => out' = operatorAndAssign(a, b, size)
        /\ last'.op = "or" => out' = operatorOrAssign(a, b, size)
        /\ last'.op = "xor" => out' = operatorXorAssign(a, b, size)
        /\ last'.op = "and=" => (b' = b /\ a' = operatorAnd(a, b, size))
        /\ last'.op = "or=" => (b' = b /\ a' = operatorOr(a, b, size))
        /\ last'.op = "xor=" => (b' = b /\ a' = operatorXor(a, b, size))
      ]_vars

\* C14 witness: a &= b has changed a, to a vector other than b.
C14_Witness ==
    /\ Called("and=")
    /\ a # pre
    /\ a # b
    /\ size > SegmentBits

-----------------------------------------------------------------------------
(* The specification of the binary operators: a program that holds three   *)
(* vectors of one size and computes a & b, a | b or a ^ b.                 *)

InitAlg ==
    /\ size \in 1..MaxAlgSize
    /\ a \in Vectors(size)
    /\ b \in Vectors(size)
    /\ c \in Vectors(size)
    /\ pre = a
    /\ last = NoCall
    /\ out = <<>>
    /\ ret = FALSE
    /\ a2 = <<>>
    /\ b2 = <<>>
    /\ indices = <<>>
    /\ result = NoResult
    /\ MeshIdle
    /\ ShaderIdle
    /\ LimitsIdle
    /\ pc = "start"

NextAlg ==
    \/ CallAnd
    \/ CallOr
    \/ CallXor

SpecAlg == InitAlg /\ [][NextAlg]_vars

\* C6: under operator==, & | and ^ commute (a&b == b&a) and are associative
\* ((a&b)&c == a&(b&c)), and (a ^ a).none() is true.
C6_Algebra ==
    /\ Called("and") =>
        /\ operatorEq(out, operatorAnd(b, a, size), size)
        /\ operatorEq(operatorAnd(out, c, size),
                      operatorAnd(a, operatorAnd(b, c, size), size), size)
    /\ Called("or") =>
        /\ operatorEq(out, operatorOr(b, a, size), size)
        /\ operatorEq(operatorOr(out, c, size),
                      operatorOr(a, operatorOr(b, c, size), size), size)
    /\ Called("xor") =>
        /\ operatorEq(out, operatorXor(b, a, size), size)
        /\ operatorEq(operatorXor(out, c, size),
                      operatorXor(a, operatorXor(b, c, size), size), size)
        /\ none(operatorXor(a, a, size), size)

\* C6 witness: a & b has been computed for three vectors of two segments
\* that differ from each other on bits 0..size-1.
C6_Witness ==
    /\ Called("and")
    /\ size > SegmentBits
    /\ Bits(a, size) # Bits(b, size)
    /\ Bits(b, size) # Bits(c, size)
    /\ Bits(a, size) # Bits(c, size)
    /\ Bits(out, size) # {}

-----------------------------------------------------------------------------
(* The two-run specification: the same program run twice, on vectors a, b  *)
(* and on vectors a2, b2 that hold the same bits 0..size-1 and any bits    *)
(* beyond; every call is made in both runs.                                *)

InitDC ==
    /\ size \in 1..MaxDCSize
    /\ a \in Vectors(size)
    /\ b \in Vectors(size)
    /\ a2 \in {d \in Vectors(size) : Bits(d, size) = Bits(a, size)}
    /\ b2 \in {d \in Vectors(size) : Bits(d, size) = Bits(b, size)}
    /\ c = <<>>
    /\ pre = <<>>
    /\ last = NoCall
    /\ out = <<>>
    /\ ret = FALSE
    /\ indices = <<>>
    /\ result = NoResult
    /\ MeshIdle
    /\ ShaderIdle
    /\ LimitsIdle
    /\ pc = "run"

\* both runs assign their receiver
BothA(value, value2) ==
    /\ pc \in {"run", "ran"}
    /\ a' = value
    /\ a2' = value2
    /\ pc' = "ran"
    /\ UNCHANGED <<size, b, b2, c, pre, last, out, ret, ciVars, meshVars, shaderVars, limitVars>>

\* both runs assign their other vector
BothB(value, value2) ==
    /\ pc \in {"run", "ran"}
    /\ b' = value
    /\ b2' = value2
    /\ pc' = "ran"
    /\ UNCHANGED <<size, a, a2, c, pre, last, out, ret, ciVars, meshVars, shaderVars, limitVars>>

\* a.set(i, v)
BothSet ==
    \E i \in 0..(size - 1), v \in BOOLEAN : BothA(set(a, i, v), set(a2, i, v))

\* a = ~a
BothNot == BothA(operatorNot(a, size), operatorNot(a2, size))

\* a &= b
BothAndAssign ==
    BothA(operatorAndAssign(a, b, size), operatorAndAssign(a2, b2, size))

\* a |= b
BothOrAssign ==
    BothA(operatorOrAssign(a, b, size), operatorOrAssign(a2, b2, size))

\* a ^= b
BothXorAssign ==
    BothA(operatorXorAssign(a, b, size), operatorXorAssign(a2, b2, size))

\* b = a & b
BothAnd == BothB(operatorAnd(a, b, size), operatorAnd(a2, b2, size))

\* b = a | b
BothOr == BothB(operatorOr(a, b, size), operatorOr(a2, b2, size))

\* b = a ^ b
BothXor == BothB(operatorXor(a, b, size), operatorXor(a2, b2, size))

NextDC ==
    \/ BothSet
    \/ BothNot
    \/ BothAndAssign
    \/ BothOrAssign
    \/ BothXorAssign
    \/ BothAnd
    \/ BothOr
    \/ BothXor

SpecDC == InitDC /\ [][NextDC]_vars

\* what a program can observe of vectors d and o: every operator[](i),
\* ==, !=, all(), none() and any()
Observations(d, o, n) ==
    << [i \in 0..(n - 1) |-> Get(d, i)], [i \in 0..(n - 1) |-> Get(o, i)],
       operatorEq(d, o, n), operatorNe(d, o, n),
       all(d, n), none(d, n), any(d, n),
       all(o, n), none(o, n), any(o, n) >>

\* C8: two runs that start from vectors equal on bits 0..size-1 and make the
\* same calls (set, ~, &=, |=, ^=, &, |, ^) observe the same operator[], ==,
\* !=, all(), none() and any(), whatever the bits beyond size-1 hold.
C8_DontCare ==
    Observations(a, b, size) = Observations(a2, b2, size)

\* C8 witness: after some calls the two runs hold vectors that differ beyond
\* bit size-1, in a and in b, while a has all its bits 0..size-1 true and
\* a == b does not hold.
C8_Witness ==
    /\ pc = "ran"
    /\ a # a2 /\ b # b2
    /\ all(a, size)
    /\ ~operatorEq(a, b, size)

-----------------------------------------------------------------------------
(* MeshTools::compressIndices                                              *)
(*                                                                         *)
(* A std::uint32_t is the sequence of its four bytes, least significant    *)
(* first; a buffer is a sequence of bytes. Element types are named by      *)
(* their GL type.                                                          *)

\* number of bytes of a std::uint32_t
IndexBytes == 4

\* the std::uint32_t of value n, for 0 <= n < 2^31
U32(n) == [k \in 1..IndexBytes |-> (n \div (256 ^ (k - 1))) % 256]

\* sample index values: 0, 5, 255, 256, 300, 65535, 65536, 70000, 2^24 - 1,
\* 2^24, 2^31 - 1 and 2^32 - 1
IndexSamples ==
    { U32(0), U32(5), U32(255), U32(256), U32(300), U32(65535), U32(65536),
      U32(70000), U32(16777215), U32(16777216), U32(2147483647),
      <<255, 255, 255, 255>> }

RECURSIVE LessFrom(_, _, _)
\* x < y decided on bytes k, k-1, .., 1
LessFrom(x, y, k) ==
    IF k = 0 THEN FALSE
    ELSE IF x[k] # y[k] THEN x[k] < y[k]
    ELSE LessFrom(x, y, k - 1)

\* x < y on std::uint32_t
Less32(x, y) == LessFrom(x, y, IndexBytes)

RECURSIVE maxFrom(_, _, _)
\* std::max_element from position k on, largest being the largest so far
maxFrom(s, k, largest) ==
    IF k > Len(s) THEN largest
    ELSE maxFrom(s, k + 1, IF Less32(largest, s[k]) THEN s[k] ELSE largest)

\* *std::max_element(indices.begin(), indices.end()), indices not empty
maxElement(s) == maxFrom(s, 2, s[1])

\* number / 256 on std::uint32_t
Div256(x) == Tail(x) \o <<0>>

RECURSIVE log256(_)
\* Math::log(256, number): the integer logarithm in base 256
log256(number) ==
    IF Div256(number) = U32(0) THEN 0 ELSE 1 + log256(Div256(number))

\* sizeof(T)
sizeofT(T) ==
    CASE T = "GLubyte" -> 1
      [] T = "GLushort" -> 2
      [] T = "GLuint" -> 4

\* indexType<T>()
indexType(T) ==
    CASE T = "GLubyte" -> "UnsignedByte"
      [] T = "GLushort" -> "UnsignedShort"
      [] T = "GLuint" -> "UnsignedInt"

\* static_cast<T>(index) followed by memcpy of its sizeof(T) bytes
castBytes(T, index) == SubSeq(index, 1, sizeofT(T))

RECURSIVE fillBuffer(_, _, _, _)
\* the loop of compress<T>: element i written at buffer + i*sizeof(T)
fillBuffer(T, s, i, buffer) ==
    IF i > Len(s) THEN buffer
    ELSE fillBuffer(T, s, i + 1, buffer \o castBytes(T, s[i]))

\* a faulty compress<T>: every element is written as a std::uint32_t
compressUncast(T, s) ==
    [status |-> "ok", count |-> Len(s), type |-> indexType(T),
     buffer |-> fillBuffer("GLuint", s, 1, <<>>)]

\* compress<T>(indices)
compress(T, s) ==
    [status |-> "ok", count |-> Len(s), type |-> indexType(T),
     buffer |-> fillBuffer(T, s, 1, <<>>)]

\* a faulty compressIndices: a maximum of 256..65535 also selects
\* GLubyte
compressIndicesByteTwice(s) ==
    LET k == log256(maxElement(s))
    IN  CASE k = 0 -> compress("GLubyte", s)
          [] k = 1 -> compress("GLubyte", s)
          [] k \in {2, 3} -> compress("GLuint", s)
          [] OTHER -> [status |-> "assert"]

\* a faulty switch: a maximum of 65536..2^24-1 selects GLushort
compressAsShortTwice(max, s) ==
    LET k == log256(max)
    IN  CASE k = 0 -> compress("GLubyte", s)
          [] k \in {1, 2} -> compress("GLushort", s)
          [] k = 3 -> compress("GLuint", s)
          [] OTHER -> [status |-> "assert"]

\* a faulty switch: case 3 is missing
compressAsNoCase3(max, s) ==
    LET k == log256(max)
    IN  CASE k = 0 -> compress("GLubyte", s)
          [] k = 1 -> compress("GLushort", s)
          [] k = 2 -> compress("GLuint", s)
          [] OTHER -> [status |-> "assert"]

\* the switch of compressIndices on Math::log(256, size), size being what
\* was read as the maximum
compressAs(max, s) ==
    LET k == log256(max)
    IN  CASE k = 0 -> compress("GLubyte", s)
          [] k = 1 -> compress("GLushort", s)
          [] k \in {2, 3} -> compress("GLuint", s)
          [] OTHER -> [status |-> "assert"]

\* compressIndices(indices), indices not empty
compressIndices(s) == compressAs(maxElement(s), s)

\* what compressIndices(indices) can do: for an empty argument
\* std::max_element returns indices.end(), and reading through it is
\* undefined: the read faults, or yields whatever lies there
compressIndicesOutcomes(s) ==
    IF s # <<>> THEN {compressIndices(s)}
    ELSE {[status |-> "crash"]} \cup {compressAs(m, s) : m \in IndexSamples}

\* the sequences of 0..n sample values
InputsUpTo(n) == UNION {[1..k -> IndexSamples] : k \in 0..n}

InitCI ==
    /\ indices \in InputsUpTo(MaxLen)
    /\ result = NoResult
    /\ MeshIdle
    /\ ShaderIdle
    /\ LimitsIdle
    /\ size = 0
    /\ a = <<>>
    /\ b = <<>>
    /\ c = <<>>
    /\ pre = <<>>
    /\ last = NoCall
    /\ out = <<>>
    /\ ret = FALSE
    /\ a2 = <<>>
    /\ b2 = <<>>
    /\ pc = "start"

\* result = compressIndices(indices)
CallCompressIndices ==
    /\ pc = "start"
    /\ result' \in compressIndicesOutcomes(indices)
    /\ pc' = "done"
    /\ UNCHANGED <<indices, bvVars, meshVars, shaderVars, limitVars>>

NextCI ==
    \/ CallCompressIndices

SpecCI == InitCI /\ [][NextCI]_vars

\* the values of the argument
Values(s) == {s[k] : k \in 1..Len(s)}

\* x < 256^k, for a std::uint32_t x
Below(x, k) == \A j \in (k + 1)..IndexBytes : x[j] = 0

\* the byte size of an index type
ElementWidth(type) ==
    CASE type = "UnsignedByte" -> 1
      [] type = "UnsignedShort" -> 2
      [] type = "UnsignedInt" -> 4

\* C9: for a non-empty argument with maximum m, the element width is 1 byte
\* exactly when m <= 255, 2 bytes exactly when 256 <= m <= 65535 and 4 bytes
\* exactly when 65536 <= m < 2^32: the choice depends on m alone.
C9_WidthSelection ==
    (pc = "done" /\ indices # <<>>) =>
        \E m \in Values(indices) :
            /\ \A x \in Values(indices) : ~Less32(m, x)
            /\ result.status = "ok"
            /\ ElementWidth(result.type) = 1 <=> Below(m, 1)
            /\ ElementWidth(result.type) = 2 <=> (~Below(m, 1) /\ Below(m, 2))
            /\ ElementWidth(result.type) = 4 <=> ~Below(m, 2)

\* C9 witness: a call has returned 2-byte elements for an argument of
\* several values whose first is not the maximum.
C9_Witness ==
    /\ pc = "done"
    /\ result.status = "ok"
    /\ result.type = "UnsignedShort"
    /\ Len(indices) > 1
    /\ Less32(indices[1], indices[2])

\* C10: for a non-empty argument of length n the returned count is n and
\* the returned buffer holds exactly n * elementWidth bytes, elementWidth
\* being the byte size (1, 2 or 4) of the returned index type.
C10_CountAndLength ==
    (pc = "done" /\ indices # <<>>) =>
        /\ result.status = "ok"
        /\ result.count = Len(indices)
        /\ Len(result.buffer) = Len(indices) * ElementWidth(result.type)

\* C10 witness: a call has returned for an argument of the greatest length
\* with 1-byte elements.
C10_Witness ==
    /\ pc = "done"
    /\ result.status = "ok"
    /\ Len(indices) = MaxLen
    /\ result.type = "UnsignedByte"

\* element i (from 0) of a buffer of elements of w bytes, read as an
\* unsigned integer and widened to a std::uint32_t
Decode(buffer, w, i) ==
    [k \in 1..IndexBytes |-> IF k <= w THEN buffer[i * w + k] ELSE 0]

\* C11: for a non-empty argument, reading the returned buffer as `count`
\* consecutive unsigned integers of the returned width yields indices[i] at
\* every position i: same values, same order, none altered by narrowing.
C11_RoundTrip ==
    (pc = "done" /\ indices # <<>>) =>
        /\ result.status = "ok"
        /\ result.count = Len(indices)
        /\ \A i \in 0..(result.count - 1) :
            Decode(result.buffer, ElementWidth(result.type), i) = indices[i + 1]

\* C11 witness: a call has returned 2-byte elements for an argument of
\* several different values, the larger first.
C11_Witness ==
    /\ pc = "done"
    /\ result.status = "ok"
    /\ result.type = "UnsignedShort"
    /\ Len(indices) = MaxLen
    /\ Less32(indices[2], indices[1])
    /\ Less32(indices[3], indices[2])

\* C12 (as stated): compressIndices called with an empty argument ends in a
\* failure and returns no count, type and buffer.
C12_EmptyFails ==
    (pc = "done" /\ indices = <<>>) => result.status # "ok"

\* C15: for a non-empty argument of 32-bit values the call never reaches
\* the 'no type able to index' branch and never truncates: the base-256
\* logarithm of the maximum is in 0..3 and every value is below
\* 256^elementWidth for the width selected.
C15_NoAssertNoTruncation ==
    (pc = "done" /\ indices # <<>>) =>
        /\ result.status = "ok"
        /\ log256(maxElement(indices)) \in 0..3
        /\ \A x \in Values(indices) : Below(x, ElementWidth(result.type))

\* C15 witness: a call has returned for an argument that holds 2^32 - 1
\* and a smaller value.
C15_Witness ==
    /\ pc = "done"
    /\ result.status = "ok"
    /\ <<255, 255, 255, 255>> \in Values(indices)
    /\ U32(300) \in Values(indices)

-----------------------------------------------------------------------------
(* compressIndices(mesh, buffer, usage, indices): the statements of the    *)
(* function, one step each. Mesh and Buffer record what they are given.    *)

\* Mesh::indexSize(type)
indexSize(type) ==
    CASE type = "UnsignedByte" -> 1
      [] type = "UnsignedShort" -> 2
      [] type = "UnsignedInt" -> 4

\* a faulty size argument: the element count instead of the byte count
uploadSizeCount(r) == r.count

\* the size argument of buffer->setData: indexCount*Mesh::indexSize(indexType)
uploadSize(r) == r.count * indexSize(r.type)

InitMesh ==
    /\ indices \in InputsUpTo(MaxLen)
    /\ result = NoResult
    /\ MeshIdle
    /\ ShaderIdle
    /\ LimitsIdle
    /\ size = 0
    /\ a = <<>>
    /\ b = <<>>
    /\ c = <<>>
    /\ pre = <<>>
    /\ last = NoCall
    /\ out = <<>>
    /\ ret = FALSE
    /\ a2 = <<>>
    /\ b2 = <<>>
    /\ pc = "start"

\* std::tie(indexCount, indexType, data) = compressIndices(indices)
MeshCompress ==
    /\ pc = "start"
    /\ result' \in compressIndicesOutcomes(indices)
    /\ heap' = IF result'.status = "ok" THEN "allocated" ELSE "none"
    /\ pc' = IF result'.status = "crash" THEN "crashed" ELSE "compressed"
    /\ UNCHANGED <<indices, mesh, gpu, bvVars, shaderVars, limitVars>>

\* mesh->setIndexCount(indices.size())->setIndexBuffer(buffer, 0, indexType)
MeshSetIndex ==
    /\ pc = "compressed"
    /\ mesh' = [set |-> TRUE, indexCount |-> Len(indices), buffer |-> "buffer",
                offset |-> 0, type |-> result.type]
    /\ pc' = "indexed"
    /\ UNCHANGED <<indices, result, gpu, heap, bvVars, shaderVars, limitVars>>

\* buffer->setData(indexCount*Mesh::indexSize(indexType), data, usage)
BufferSetData ==
    /\ pc = "indexed"
    /\ gpu' = [set |-> TRUE, size |-> uploadSize(result),
               data |-> IF heap = "allocated" /\ uploadSize(result) <= Len(result.buffer)
                        THEN SubSeq(result.buffer, 1, uploadSize(result))
                        ELSE <<"invalid read">>,
               usage |-> "usage"]
    /\ pc' = "uploaded"
    /\ UNCHANGED <<indices, result, mesh, heap, bvVars, shaderVars, limitVars>>

\* delete[] data
DeleteData ==
    /\ pc = "uploaded"
    /\ heap' = "released"
    /\ pc' = "done"
    /\ UNCHANGED <<indices, result, mesh, gpu, bvVars, shaderVars, limitVars>>

NextMesh ==
    \/ MeshCompress
    \/ MeshSetIndex
    \/ BufferSetData
    \/ DeleteData

SpecMesh == InitMesh /\ [][NextMesh]_vars

\* C13: the variant with a mesh and a buffer compresses as the variant
\* that returns a tuple does, then sets the mesh's index count to the length
\* of the argument and the buffer as the mesh's index buffer at offset 0
\* with the type selected, uploads exactly count * indexSize(type) bytes of
\* the compressed data, and releases the data only after the upload: it is
\* released when the call returns and was not released when it was read.
C13_MeshVariant ==
    /\ pc \in {"compressed", "indexed", "uploaded", "done"} =>
        /\ result \in compressIndicesOutcomes(indices)
        /\ result.status = "ok"
    /\ pc \in {"start", "compressed"} => ~mesh.set
    /\ pc \in {"indexed", "uploaded", "done"} =>
        /\ mesh.set
        /\ mesh.indexCount = Len(indices)
        /\ mesh.buffer = "buffer"
        /\ mesh.offset = 0
        /\ mesh.type = result.type
    /\ pc \in {"start", "compressed", "indexed"} => ~gpu.set
    /\ pc \in {"uploaded", "done"} =>
        /\ gpu.set
        /\ gpu.size = result.count * ElementWidth(result.type)
        /\ gpu.size = Len(result.buffer)
        /\ gpu.data = result.buffer
    /\ pc \in {"compressed", "indexed", "uploaded"} => heap = "allocated"
    /\ pc = "done" => heap = "released"

\* C13 witness: the call has returned after uploading the 2-byte elements
\* of an argument of the greatest length.
C13_Witness ==
    /\ pc = "done"
    /\ gpu.set
    /\ mesh.type = "UnsignedShort"
    /\ Len(indices) = MaxLen
    /\ heap = "released"

-----------------------------------------------------------------------------
(* Shader (src/unnamed/part_000).  A std::string is the sequence of its     *)
(* pieces, the empty string is <<>>; _sources is a sequence of strings.     *)
(* A program constructs shaders and adds sources and files to them, then    *)
(* calls Shader::compile on a list of them; compile is followed statement   *)
(* by statement, one step for each shader of each of its loops.             *)

\* Most shaders a program constructs
MaxShaders == 2

\* Most non-empty sources a program adds, over all its shaders
MaxSources == 3

\* the Version values given to the constructor
Versions == {"None", "GL330"}

\* the Shader::Type values given to the constructor
ShaderTypes == {"Vertex", "Fragment"}

\* the strings given to addSource
SourceSamples == {<<>>, <<"void main() {}\n">>}

\* the file names given to addFile, and what Utility::Directory finds
Files == {"missing.glsl", "empty.glsl", "main.glsl"}

\* Utility::Directory::fileExists(filename)
fileExists(filename) == filename # "missing.glsl"

\* Utility::Directory::readString(filename)
readString(filename) ==
    IF filename = "main.glsl" THEN <<"void main() {}\n">> ELSE <<>>

\* what the driver reports of a compiled shader: GL_COMPILE_STATUS and
\* GL_INFO_LOG_LENGTH (the length counts the terminating \0)
DriverOutcomes ==
    { [success |-> 1, logLength |-> 0], [success |-> 1, logLength |-> 5],
      [success |-> 0, logLength |-> 1], [success |-> 0, logLength |-> 5] }

\* what the driver reports of a shader that was never compiled
NotCompiled == [success |-> 0, logLength |-> 0]

\* one decimal digit
Digit(d) ==
    CASE d = 0 -> "0" [] d = 1 -> "1" [] d = 2 -> "2" [] d = 3 -> "3"
      [] d = 4 -> "4" [] d = 5 -> "5" [] d = 6 -> "6" [] d = 7 -> "7"
      [] d = 8 -> "8" [] d = 9 -> "9"

\* std::to_string(n): the decimal digits of n
RECURSIVE to_string(_)
to_string(n) ==
    IF n < 10 THEN <<Digit(n)>>
    ELSE to_string(n \div 10) \o <<Digit(n % 10)>>

\* shaderName(type)
shaderName(type) ==
    CASE type = "Vertex" -> "vertex"
      [] type = "Fragment" -> "fragment"

\* Shader::Shader: _sources after the switch over version
versionSources(version) ==
    CASE version = "GL330" -> << <<"#version 330\n">> >>
      [] version = "None" -> <<>>

\* the directive pushed by addSource before a source
lineDirective(number) == <<"#line 1 ">> \o to_string(number) \o <<"\n">>

\* Shader::addSource(source): _sources after the call
addSource(sources, source) ==
    IF source # <<>>
    THEN sources \o << lineDirective((Len(sources) + 1) \div 2), source >>
    ELSE sources

\* the positions of _sources that hold an added source: neither the
\* #version string of the constructor nor a #line directive
AddedAt(sources) ==
    { p \in 1..Len(sources) :
        /\ sources[p] # <<"#version 330\n">>
        /\ sources[p][1] # "#line 1 " }

\* the number of non-empty sources added to a shader
AddedCount(s) == Cardinality(AddedAt(s.sources))

RECURSIVE SumAdded(_)
SumAdded(ss) ==
    IF ss = <<>> THEN 0 ELSE AddedCount(Head(ss)) + SumAdded(Tail(ss))

\* the sequences over 1..n without repetition: the lists given to compile
RECURSIVE ListsOver(_)
ListsOver(S) ==
    {<<>>} \cup UNION { { <<x>> \o l : l \in ListsOver(S \ {x}) } : x \in S }

InitShader ==
    /\ ShaderIdle
    /\ LimitsIdle
    /\ MeshIdle
    /\ indices = <<>>
    /\ result = NoResult
    /\ size = 0
    /\ a = <<>>
    /\ b = <<>>
    /\ c = <<>>
    /\ pre = <<>>
    /\ last = NoCall
    /\ out = <<>>
    /\ ret = FALSE
    /\ a2 = <<>>
    /\ b2 = <<>>
    /\ pc = "build"

\* Shader::Shader(version, type); the driver names the shaders 1, 2, ...
Construct(version, type) ==
    /\ pc = "build"
    /\ Len(shaders) < MaxShaders
    /\ shaders' = Append(shaders, [type |-> type, id |-> Len(shaders) + 1,
                                   sources |-> versionSources(version),
                                   version |-> version])
    /\ gl' = Append(gl, [call |-> "glCreateShader", type |-> type,
                         id |-> Len(shaders) + 1])
    /\ driver' = Append(driver, NotCompiled)
    /\ shaderCall' = [op |-> "Shader", shader |-> Len(shaders) + 1]
    /\ UNCHANGED <<list, reports, idx, allSuccess, compiled, pc,
                   bvVars, ciVars, meshVars, limitVars>>

\* shader.addSource(source)
AddSource(i, source) ==
    /\ pc = "build"
    /\ source # <<>> => SumAdded(shaders) < MaxSources
    /\ shaders' = [shaders EXCEPT ![i].sources = addSource(@, source)]
    /\ shaderCall' = [op |-> "addSource", shader |-> i, source |-> source,
                      before |-> shaders[i].sources]
    /\ UNCHANGED <<list, gl, reports, idx, allSuccess, driver, compiled, pc,
                   bvVars, ciVars, meshVars, limitVars>>

\* shader.addFile(filename): a file that cannot be read fails the assertion,
\* which ends the program or returns, as Corrade was built
AddFile(i, filename) ==
    /\ pc = "build"
    /\ fileExists(filename) /\ readString(filename) # <<>>
            => SumAdded(shaders) < MaxSources
    /\ IF fileExists(filename)
       THEN /\ shaders' = [shaders EXCEPT
                              ![i].sources = addSource(@, readString(filename))]
            /\ pc' = pc
       ELSE /\ shaders' = shaders
            /\ pc' \in {"build", "aborted"}
    /\ shaderCall' = [op |-> "addFile", shader |-> i, filename |-> filename,
                      before |-> shaders[i].sources]
    /\ UNCHANGED <<list, gl, reports, idx, allSuccess, driver, compiled,
                   bvVars, ciVars, meshVars, limitVars>>

\* a faulty check: any string in _sources counts as a file
hasFilesAny(sources) == Len(sources) > 0

\* the condition asserted of each shader: shader._sources.size() > 1
hasFiles(sources) == Len(sources) > 1

\* the loop that follows a loop over the shaders
nextPhase(phase) ==
    CASE phase = "upload" -> "compile"
      [] phase = "compile" -> "status"
      [] phase = "status" -> "return"

\* a faulty control flow: each shader is compiled right after its upload
advanceFused(phase, i, n) ==
    CASE phase = "upload" -> [pc |-> "compile", idx |-> i]
      [] phase = "compile" /\ i < n -> [pc |-> "upload", idx |-> i + 1]
      [] phase = "compile" /\ i >= n -> [pc |-> "status", idx |-> 1]
      [] phase = "status" /\ i < n -> [pc |-> "status", idx |-> i + 1]
      [] OTHER -> [pc |-> "return", idx |-> 1]

\* where the control is after the body of a loop ran for shader i of n:
\* at the next shader of the loop, or at the first of the next loop
advance(phase, i, n) ==
    IF i < n THEN [pc |-> phase, idx |-> i + 1]
    ELSE [pc |-> nextPhase(phase), idx |-> 1]

\* Shader::compile(shaders), up to the upload: allSuccess = true and the
\* loop of assertions; a failed assertion ends the program or returns false
CompileBegin(l) ==
    /\ pc = "build"
    /\ list' = l
    /\ allSuccess' = TRUE
    /\ shaderCall' = [op |-> "compile"]
    /\ IF \E j \in 1..Len(l) : ~hasFiles(shaders[l[j]].sources)
       THEN /\ pc' = "asserted"
            /\ compiled' \in {"false", "abort"}
            /\ idx' = idx
       ELSE /\ pc' = IF l = <<>> THEN "return" ELSE "upload"
            /\ compiled' = compiled
            /\ idx' = 1
    /\ UNCHANGED <<shaders, gl, reports, driver,
                   bvVars, ciVars, meshVars, limitVars>>

\* the shader the running loop is at
Current == shaders[list[idx]]

\* glShaderSource(shader._id, shader._sources.size(), pointers, sizes)
GlShaderSource ==
    /\ pc = "upload"
    /\ gl' = Append(gl, [call |-> "glShaderSource", id |-> Current.id,
                         count |-> Len(Current.sources),
                         strings |-> Current.sources])
    /\ pc' = advance("upload", idx, Len(list)).pc
    /\ idx' = advance("upload", idx, Len(list)).idx
    /\ UNCHANGED <<shaders, shaderCall, list, reports, allSuccess, driver,
                   compiled, bvVars, ciVars, meshVars, limitVars>>

\* glCompileShader(shader._id): the driver compiles, with any outcome
GlCompileShader ==
    /\ pc = "compile"
    /\ gl' = Append(gl, [call |-> "glCompileShader", id |-> Current.id])
    /\ \E o \in DriverOutcomes : driver' = [driver EXCEPT ![Current.id] = o]
    /\ pc' = advance("compile", idx, Len(list)).pc
    /\ idx' = advance("compile", idx, Len(list)).idx
    /\ UNCHANGED <<shaders, shaderCall, list, reports, allSuccess,
                   compiled, bvVars, ciVars, meshVars, limitVars>>

\* a faulty update: the status of the last shader alone
allSuccessLast(soFar, success) == success # 0

\* allSuccess = allSuccess && success
allSuccessAnd(soFar, success) == soFar /\ success # 0

\* the length of message after message.resize(std::max(logLength, 1)-1)
messageLength(logLength) == (IF logLength > 1 THEN logLength ELSE 1) - 1

\* what is written to Error or Warning for shader number i of n
Report(to, type, i, n, logLength) ==
    [to |-> to, shader |-> shaderName(type),
     number |-> IF n # 1 THEN to_string(i) ELSE <<>>,
     message |-> messageLength(logLength)]

\* the body of the loop that checks the status of all shaders
CheckStatus ==
    /\ pc = "status"
    /\ LET id == Current.id
           success == driver[id].success
           logLength == driver[id].logLength
       IN /\ gl' = gl \o
                 << [call |-> "glGetShaderiv", id |-> id,
                     pname |-> "GL_COMPILE_STATUS"],
                    [call |-> "glGetShaderiv", id |-> id,
                     pname |-> "GL_INFO_LOG_LENGTH"] >> \o
                 (IF logLength > 1
                  THEN << [call |-> "glGetShaderInfoLog", id |-> id,
                           bufSize |-> logLength] >>
                  ELSE <<>>)
          /\ reports' =
                 IF success = 0
                 THEN Append(reports, Report("Error", Current.type, idx,
                                             Len(list), logLength))
                 ELSE IF messageLength(logLength) # 0
                 THEN Append(reports, Report("Warning", Current.type, idx,
                                             Len(list), logLength))
                 ELSE reports
          /\ allSuccess' = allSuccessAnd(allSuccess, success)
    /\ pc' = advance("status", idx, Len(list)).pc
    /\ idx' = advance("status", idx, Len(list)).idx
    /\ UNCHANGED <<shaders, shaderCall, list, driver, compiled,
                   bvVars, ciVars, meshVars, limitVars>>

\* return allSuccess
CompileReturn ==
    /\ pc = "return"
    /\ compiled' = IF allSuccess THEN "true" ELSE "false"
    /\ pc' = "done"
    /\ UNCHANGED <<shaders, shaderCall, list, gl, reports, idx, allSuccess,
                   driver, bvVars, ciVars, meshVars, limitVars>>

NextShader ==
    \/ \E version \in Versions, type \in ShaderTypes : Construct(version, type)
    \/ \E i \in 1..Len(shaders), source \in SourceSamples : AddSource(i, source)
    \/ \E i \in 1..Len(shaders), filename \in Files : AddFile(i, filename)
    \/ \E l \in ListsOver(1..Len(shaders)) : CompileBegin(l)
    \/ GlShaderSource
    \/ GlCompileShader
    \/ CheckStatus
    \/ CompileReturn

SpecShader == InitShader /\ [][NextShader]_vars

\* the position in _sources of the k-th source added
KthAdded(sources, k) ==
    CHOOSE p \in AddedAt(sources) :
        Cardinality({ q \in AddedAt(sources) : q < p }) = k - 1

\* C16: for a shader constructed with any Version, Version::None included,
\* the k-th non-empty source added is immediately preceded in the source
\* list by the directive "#line 1 k\n"; addSource with an empty string
\* leaves the source list unchanged.
C16_LineNumbering ==
    /\ \A i \in 1..Len(shaders) : \A k \in 1..AddedCount(shaders[i]) :
          LET p == KthAdded(shaders[i].sources, k)
          IN /\ p > 1
             /\ shaders[i].sources[p - 1] = lineDirective(k)
    /\ (shaderCall.op = "addSource" /\ shaderCall.source = <<>>) =>
          shaders[shaderCall.shader].sources = shaderCall.before

\* the shaders of the list given to compile, by their OpenGL names
ListIds == [j \in 1..Len(list) |-> shaders[list[j]].id]

\* the OpenGL names a sequence of calls was issued for
Ids(calls) == [q \in 1..Len(calls) |-> calls[q].id]

IsPrefix(s, t) == Len(s) <= Len(t) /\ s = SubSeq(t, 1, Len(s))

IsUpload(g) == g.call = "glShaderSource"

IsCompile(g) == g.call = "glCompileShader"

IsQuery(g) == g.call \in {"glGetShaderiv", "glGetShaderInfoLog"}

IsStatusQuery(g) == g.call = "glGetShaderiv" /\ g.pname = "GL_COMPILE_STATUS"

IsLogQuery(g) == g.call = "glGetShaderInfoLog"

\* the phase of compile a call belongs to
phaseOf(g) ==
    CASE IsUpload(g) -> 1
      [] IsCompile(g) -> 2
      [] IsQuery(g) -> 3

\* compile has been called and was not rejected
Compiling == pc \in {"upload", "compile", "status", "return", "done"}

\* C17: compile returns true if and only if every shader of the list
\* reports a successful compile status, wherever a failing shader stands
\* in the list; the status of every shader is queried, and the message of
\* every failing shader is written to Error, also after an earlier shader
\* failed.
C17_AllSucceed ==
    pc = "done" =>
        /\ compiled \in {"true", "false"}
        /\ compiled = "true" <=>
              \A j \in 1..Len(list) : driver[ListIds[j]].success # 0
        /\ Ids(SelectSeq(gl, IsStatusQuery)) = ListIds
        /\ \A j \in 1..Len(list) :
              driver[ListIds[j]].success = 0 =>
                  \E r \in 1..Len(reports) :
                      reports[r] = Report("Error", shaders[list[j]].type, j,
                                          Len(list),
                                          driver[ListIds[j]].logLength)

\* C17 witness: compile returned false for a list whose first shader
\* failed and whose last shader succeeded, and both were reported.
C17_Witness ==
    /\ pc = "done"
    /\ Len(list) = MaxShaders
    /\ driver[ListIds[1]].success = 0
    /\ driver[ListIds[Len(list)]].success # 0
    /\ driver[ListIds[Len(list)]].logLength > 1
    /\ compiled = "false"
    /\ Len(reports) = Len(list)

\* C18: the calls of compile come in three phases: glShaderSource for
\* every shader, then glCompileShader for every shader, then the queries
\* of status and info log; no call of a later phase precedes a call of an
\* earlier one, each phase has visited all shaders when the next begins,
\* and each phase visits the shaders in the order of the list.
C18_Phases ==
    LET calls == SelectSeq(gl, LAMBDA g : g.call # "glCreateShader")
        up == SelectSeq(gl, IsUpload)
        co == SelectSeq(gl, IsCompile)
        st == SelectSeq(gl, IsStatusQuery)
        lg == SelectSeq(gl, IsLogQuery)
    IN  /\ \A p, q \in 1..Len(calls) :
              p < q => phaseOf(calls[p]) <= phaseOf(calls[q])
        /\ IsPrefix(Ids(up), ListIds)
        /\ IsPrefix(Ids(co), ListIds)
        /\ IsPrefix(Ids(st), ListIds)
        /\ co # <<>> => Ids(up) = ListIds
        /\ SelectSeq(gl, IsQuery) # <<>> => Ids(co) = ListIds
        /\ \A p, q \in 1..Len(lg) : p < q =>
              \E j, k \in 1..Len(list) :
                  j < k /\ ListIds[j] = lg[p].id /\ ListIds[k] = lg[q].id
        /\ pc = "done" => Ids(st) = ListIds

\* C18 witness: compile returned for a list of the most shaders, given
\* in the reverse of their construction, after querying an info log.
C18_Witness ==
    /\ pc = "done"
    /\ Len(list) = MaxShaders
    /\ ListIds[1] = MaxShaders
    /\ ListIds[MaxShaders] = 1
    /\ Len(SelectSeq(gl, IsCompile)) = MaxShaders
    /\ SelectSeq(gl, IsLogQuery) # <<>>

\* C19: compile rejects the call exactly when some shader of the list has
\* had no non-empty source added since its construction, with a #version
\* line or with Version::None; a rejected call has uploaded and compiled
\* nothing and does not return true.
C19_NoFilesRejected ==
    (pc = "asserted" \/ Compiling) =>
        /\ pc = "asserted" <=>
              \E j \in 1..Len(list) : AddedCount(shaders[list[j]]) = 0
        /\ pc = "asserted" =>
              /\ compiled \in {"false", "abort"}
              /\ \A q \in 1..Len(gl) : gl[q].call = "glCreateShader"
              /\ reports = <<>>

\* C19 witness: a call was rejected for a shader constructed with a
\* #version line and nothing added, listed after a shader with a source.
C19_Witness ==
    /\ pc = "asserted"
    /\ Len(list) = 2
    /\ AddedCount(shaders[list[1]]) > 0
    /\ AddedCount(shaders[list[2]]) = 0
    /\ shaders[list[2]].version # "None"
    /\ compiled = "false"

-----------------------------------------------------------------------------
(* The shader limit queries (src/unnamed/part_000), desktop OpenGL build.   *)
(* A context supports a set of extensions and its driver has one value for  *)
(* each limit; a program makes limit queries in any order.                  *)

\* Most limit queries a program makes
MaxCalls == 3

\* the extensions a context may support
ExtensionSamples == {"ARB_geometry_shader4", "ARB_compute_shader"}

\* the values a driver may have for a limit
LimitSamples == {0, 16}

\* the Shader::Type values given to the limit queries
LimitTypes == {"Vertex", "Geometry", "Compute"}

\* typeToIndex(type)
typeToIndex(type) ==
    CASE type = "Vertex" -> 0
      [] type = "Fragment" -> 1
      [] type = "Geometry" -> 2
      [] type = "TessellationControl" -> 3
      [] type = "TessellationEvaluation" -> 4
      [] type = "Compute" -> 5

\* isTypeSupported(type), in a context supporting the extensions e
isTypeSupported(type, e) ==
    IF type = "Geometry" /\ "ARB_geometry_shader4" \notin e THEN FALSE
    ELSE IF type \in {"TessellationControl", "TessellationEvaluation"}
            /\ "ARB_tessellation_shader" \notin e THEN FALSE
    ELSE IF type = "Compute" /\ "ARB_compute_shader" \notin e THEN FALSE
    ELSE TRUE

\* the array `what` of maxTextureImageUnits; C++ index k is index k+1
textureImageUnitsWhat ==
    << "GL_MAX_VERTEX_TEXTURE_IMAGE_UNITS",
       "GL_MAX_TEXTURE_IMAGE_UNITS",
       "GL_MAX_GEOMETRY_TEXTURE_IMAGE_UNITS",
       "GL_MAX_TESS_CONTROL_TEXTURE_IMAGE_UNITS",
       "GL_MAX_TESS_EVALUATION_TEXTURE_IMAGE_UNITS",
       "GL_MAX_COMPUTE_TEXTURE_IMAGE_UNITS" >>

\* the array `what` of maxUniformComponents; C++ index k is index k+1
uniformComponentsWhat ==
    << "GL_MAX_VERTEX_UNIFORM_COMPONENTS",
       "GL_MAX_FRAGMENT_UNIFORM_COMPONENTS",
       "GL_MAX_GEOMETRY_UNIFORM_COMPONENTS",
       "GL_MAX_TESS_CONTROL_UNIFORM_COMPONENTS",
       "GL_MAX_TESS_EVALUATION_UNIFORM_COMPONENTS",
       "GL_MAX_COMPUTE_UNIFORM_COMPONENTS" >>

\* the limits the queries of the model can ask the driver for
AskedLimits ==
    { textureImageUnitsWhat[typeToIndex(type) + 1] : type \in LimitTypes }
    \cup { uniformComponentsWhat[typeToIndex(type) + 1] : type \in LimitTypes }
    \cup { "GL_MAX_COMBINED_TEXTURE_IMAGE_UNITS" }

\* Implementation::ShaderState of a new context: nothing is cached
ShaderState ==
    [ maxTextureImageUnits |-> [k \in 1..6 |-> 0],
      maxTextureImageUnitsCombined |-> 0,
      maxUniformComponents |-> [k \in 1..6 |-> 0],
      maxCombinedAtomicCounterBuffers |-> 0,
      maxShaderStorageBlocks |-> [k \in 1..6 |-> 0],
      maxCombinedShaderStorageBlocks |-> 0 ]

InitLimits ==
    /\ exts \in SUBSET ExtensionSamples
    /\ limits \in [AskedLimits -> LimitSamples]
    /\ cache = ShaderState
    /\ queried = <<>>
    /\ limitCall = <<>>
    /\ ShaderIdle
    /\ MeshIdle
    /\ indices = <<>>
    /\ result = NoResult
    /\ size = 0
    /\ a = <<>>
    /\ b = <<>>
    /\ c = <<>>
    /\ pre = <<>>
    /\ last = NoCall
    /\ out = <<>>
    /\ ret = FALSE
    /\ a2 = <<>>
    /\ b2 = <<>>
    /\ pc = "start"

\* the test made of a cached value: if(value == 0)
notCached(value) == value = 0

\* if(value == 0) glGetIntegerv(what, &value); return value;
\* the value afterwards and the glGetIntegerv calls issued
getCached(value, what) ==
    IF notCached(value)
    THEN [value |-> limits[what], asked |-> <<what>>]
    ELSE [value |-> value, asked |-> <<>>]

\* Shader::maxTextureImageUnits(type)
MaxTextureImageUnits(type) ==
    /\ Len(limitCall) < MaxCalls
    /\ IF ~isTypeSupported(type, exts)
       THEN /\ limitCall' = Append(limitCall,
                   [fn |-> "maxTextureImageUnits", type |-> type, ret |-> 0,
                    asked |-> FALSE])
            /\ UNCHANGED <<cache, queried>>
       ELSE LET index == typeToIndex(type)
                g == getCached(cache.maxTextureImageUnits[index + 1],
                               textureImageUnitsWhat[index + 1])
            IN /\ cache' = [cache EXCEPT
                               !.maxTextureImageUnits[index + 1] = g.value]
               /\ queried' = queried \o g.asked
               /\ limitCall' = Append(limitCall,
                      [fn |-> "maxTextureImageUnits", type |-> type,
                       ret |-> g.value, asked |-> g.asked # <<>>])
    /\ UNCHANGED <<exts, limits, pc, bvVars, ciVars, meshVars, shaderVars>>

\* Shader::maxCombinedTextureImageUnits()
MaxCombinedTextureImageUnits ==
    /\ Len(limitCall) < MaxCalls
    /\ LET g == getCached(cache.maxTextureImageUnitsCombined,
                          "GL_MAX_COMBINED_TEXTURE_IMAGE_UNITS")
       IN /\ cache' = [cache EXCEPT !.maxTextureImageUnitsCombined = g.value]
          /\ queried' = queried \o g.asked
          /\ limitCall' = Append(limitCall,
                 [fn |-> "maxCombinedTextureImageUnits", type |-> "none",
                  ret |-> g.value, asked |-> g.asked # <<>>])
    /\ UNCHANGED <<exts, limits, pc, bvVars, ciVars, meshVars, shaderVars>>

\* Shader::maxUniformComponents(type)
MaxUniformComponents(type) ==
    /\ Len(limitCall) < MaxCalls
    /\ IF ~isTypeSupported(type, exts)
       THEN /\ limitCall' = Append(limitCall,
                   [fn |-> "maxUniformComponents", type |-> type, ret |-> 0,
                    asked |-> FALSE])
            /\ UNCHANGED <<cache, queried>>
       ELSE LET index == typeToIndex(type)
                g == getCached(cache.maxUniformComponents[index + 1],
                               uniformComponentsWhat[index + 1])
            IN /\ cache' = [cache EXCEPT
                               !.maxUniformComponents[index + 1] = g.value]
               /\ queried' = queried \o g.asked
               /\ limitCall' = Append(limitCall,
                      [fn |-> "maxUniformComponents", type |-> type,
                       ret |-> g.value, asked |-> g.asked # <<>>])
    /\ UNCHANGED <<exts, limits, pc, bvVars, ciVars, meshVars, shaderVars>>

NextLimits ==
    \/ \E type \in LimitTypes : MaxTextureImageUnits(type)
    \/ MaxCombinedTextureImageUnits
    \/ \E type \in LimitTypes : MaxUniformComponents(type)

SpecLimits == InitLimits /\ [][NextLimits]_vars

\* C20: across any sequence of limit queries the driver is asked at most
\* once for each limit (and shader type), and every call after the first
\* of a limit returns what the first returned without asking the driver.
C20_QueriedOnce ==
    /\ \A p, q \in 1..Len(queried) : queried[p] = queried[q] => p = q
    /\ \A p, q \in 1..Len(limitCall) :
          (/\ p < q
           /\ limitCall[p].fn = limitCall[q].fn
           /\ limitCall[p].type = limitCall[q].type) =>
              /\ limitCall[q].ret = limitCall[p].ret
              /\ ~limitCall[q].asked

-----------------------------------------------------------------------------
(* The limit queries that an extension stands before: a program queries   *)
(* the shader storage block and atomic counter buffer limits of a context *)
(* that supports any of the extensions concerned.                          *)

\* the extensions a context may support
GatedExtensionSamples ==
    {"ARB_shader_storage_buffer_object", "ARB_shader_atomic_counters",
     "ARB_compute_shader"}

\* the Shader::Type values given to maxShaderStorageBlocks
GatedTypes == {"Vertex", "Compute"}

\* the array `what` of maxShaderStorageBlocks; C++ index k is index k+1
shaderStorageBlocksWhat ==
    << "GL_MAX_VERTEX_SHADER_STORAGE_BLOCKS",
       "GL_MAX_FRAGMENT_SHADER_STORAGE_BLOCKS",
       "GL_MAX_GEOMETRY_SHADER_STORAGE_BLOCKS",
       "GL_MAX_TESS_CONTROL_SHADER_STORAGE_BLOCKS",
       "GL_MAX_TESS_EVALUATION_SHADER_STORAGE_BLOCKS",
       "GL_MAX_COMPUTE_SHADER_STORAGE_BLOCKS" >>

\* the limits the gated queries of the model can ask the driver for
GatedLimits ==
    { shaderStorageBlocksWhat[typeToIndex(type) + 1] : type \in GatedTypes }
    \cup { "GL_MAX_COMBINED_SHADER_STORAGE_BLOCKS",
           "GL_MAX_COMBINED_ATOMIC_COUNTER_BUFFERS" }

InitGated ==
    /\ exts \in SUBSET GatedExtensionSamples
    /\ limits \in [GatedLimits -> LimitSamples]
    /\ cache = ShaderState
    /\ queried = <<>>
    /\ limitCall = <<>>
    /\ ShaderIdle
    /\ MeshIdle
    /\ indices = <<>>
    /\ result = NoResult
    /\ size = 0
    /\ a = <<>>
    /\ b = <<>>
    /\ c = <<>>
    /\ pre = <<>>
    /\ last = NoCall
    /\ out = <<>>
    /\ ret = FALSE
    /\ a2 = <<>>
    /\ b2 = <<>>
    /\ pc = "start"

\* Shader::maxCombinedAtomicCounterBuffers()
MaxCombinedAtomicCounterBuffers ==
    /\ Len(limitCall) < MaxCalls
    /\ IF "ARB_shader_atomic_counters" \notin exts
       THEN /\ limitCall' = Append(limitCall,
                   [fn |-> "maxCombinedAtomicCounterBuffers", type |-> "none",
                    ret |-> 0, asked |-> FALSE])
            /\ UNCHANGED <<cache, queried>>
       ELSE LET g == getCached(cache.maxCombinedAtomicCounterBuffers,
                               "GL_MAX_COMBINED_ATOMIC_COUNTER_BUFFERS")
            IN /\ cache' = [cache EXCEPT
                               !.maxCombinedAtomicCounterBuffers = g.value]
               /\ queried' = queried \o g.asked
               /\ limitCall' = Append(limitCall,
                      [fn |-> "maxCombinedAtomicCounterBuffers",
                       type |-> "none", ret |-> g.value,
                       asked |-> g.asked # <<>>])
    /\ UNCHANGED <<exts, limits, pc, bvVars, ciVars, meshVars, shaderVars>>

\* Shader::maxShaderStorageBlocks(type)
MaxShaderStorageBlocks(type) ==
    /\ Len(limitCall) < MaxCalls
    /\ IF \/ "ARB_shader_storage_buffer_object" \notin exts
          \/ ~isTypeSupported(type, exts)
       THEN /\ limitCall' = Append(limitCall,
                   [fn |-> "maxShaderStorageBlocks", type |-> type,
                    ret |-> 0, asked |-> FALSE])
            /\ UNCHANGED <<cache, queried>>
       ELSE LET index == typeToIndex(type)
                g == getCached(cache.maxShaderStorageBlocks[index + 1],
                               shaderStorageBlocksWhat[index + 1])
            IN /\ cache' = [cache EXCEPT
                               !.maxShaderStorageBlocks[index + 1] = g.value]
               /\ queried' = queried \o g.asked
               /\ limitCall' = Append(limitCall,
                      [fn |-> "maxShaderStorageBlocks", type |-> type,
                       ret |-> g.value, asked |-> g.asked # <<>>])
    /\ UNCHANGED <<exts, limits, pc, bvVars, ciVars, meshVars, shaderVars>>

\* Shader::maxCombinedShaderStorageBlocks(): the extension tested is
\* ARB::shader_atomic_counters
MaxCombinedShaderStorageBlocks ==
    /\ Len(limitCall) < MaxCalls
    /\ IF "ARB_shader_atomic_counters" \notin exts
       THEN /\ limitCall' = Append(limitCall,
                   [fn |-> "maxCombinedShaderStorageBlocks", type |-> "none",
                    ret |-> 0, asked |-> FALSE])
            /\ UNCHANGED <<cache, queried>>
       ELSE LET g == getCached(cache.maxCombinedShaderStorageBlocks,
                               "GL_MAX_COMBINED_SHADER_STORAGE_BLOCKS")
            IN /\ cache' = [cache EXCEPT
                               !.maxCombinedShaderStorageBlocks = g.value]
               /\ queried' = queried \o g.asked
               /\ limitCall' = Append(limitCall,
                      [fn |-> "maxCombinedShaderStorageBlocks",
                       type |-> "none", ret |-> g.value,
                       asked |-> g.asked # <<>>])
    /\ UNCHANGED <<exts, limits, pc, bvVars, ciVars, meshVars, shaderVars>>

NextGated ==
    \/ MaxCombinedAtomicCounterBuffers
    \/ \E type \in GatedTypes : MaxShaderStorageBlocks(type)
    \/ MaxCombinedShaderStorageBlocks

SpecGated == InitGated /\ [][NextGated]_vars

\* C21: a gated limit query returns 0 without asking the driver whenever
\* the extension that defines its limit is unsupported, and a query for a
\* shader type whenever that type is unsupported; maxShaderStorageBlocks
\* and maxCombinedShaderStorageBlocks both do so whenever
\* ARB_shader_storage_buffer_object is unsupported, whatever else is
\* supported.
C21_GatedReturnsZero ==
    \A p \in 1..Len(limitCall) :
        LET call == limitCall[p]
            unsupported ==
                \/ /\ call.fn = "maxCombinedAtomicCounterBuffers"
                   /\ "ARB_shader_atomic_counters" \notin exts
                \/ /\ call.fn \in {"maxShaderStorageBlocks",
                                   "maxCombinedShaderStorageBlocks"}
                   /\ "ARB_shader_storage_buffer_object" \notin exts
                \/ /\ call.fn = "maxShaderStorageBlocks"
                   /\ ~isTypeSupported(call.type, exts)
        IN unsupported => (call.ret = 0 /\ ~call.asked)

====
